---- MODULE Spec2Model ----
(***************************************************************************)
(* The inventory recording session of the soup-kitchen inventory tracker:  *)
(* the InventoryRecorder component (src/components/InventoryRecorder.tsx), *)
(* the voice modal that processes in the background (src/unnamed/part_003),*)
(* the camera modal (src/components/CameraModal.tsx) and the n8n client    *)
(* (src/services/apiService.ts).                                           *)
(*                                                                         *)
(* React state is modelled by one variable per useState cell.  An event    *)
(* handler runs to completion in one step; the summary effect (deps        *)
(* [items]) is committed with the render that follows every change of      *)
(* items, so each step that changes items also recomputes summary.  An     *)
(* async handler is split at its await: the part before it is one step,    *)
(* the continuation (finally block and the promise callbacks, which run as *)
(* microtasks without any event in between) another.  A continuation runs  *)
(* in the closure of the render in which the handler was invoked: the      *)
(* values of items and activeItemIndex it reads are those of that render,  *)
(* while functional setState updates act on the live state.                *)
(*                                                                         *)
(* Weights are in thousandths of a pound.                                  *)
(***************************************************************************)
EXTENDS Integers, Sequences, FiniteSets, TLC

\* ------------------------------------------------------------------ bounds
MaxItems == 2
MaxIds == 3
MaxCalls == 2
MaxSubmits == 1
MaxResubmits == 2
MaxPhotoCalls == 3
MaxNumber == 20000

\* --------------------------------------------------------------- constants
CATEGORIES ==
  {"Canned Goods", "Fresh Produce", "Dairy", "Meat", "Bakery", "Frozen",
   "Pantry Staples", "Beverages", "Snacks", "Other"}

DONORS ==
  {"Ridley's", "Perkins", "Safeway", "UW Catering", "Training Table",
   "Bagelmakers", "Little Caesar's", "Insomnia Cookies", "Sinclair Gas",
   "Bread Depot", "Ivinson Memorial Hospital (IMH)",
   "Early Childhood Education Ctr", "custom"}

\* activeItemIndex === null
NoIndex == -1

\* The expiration date getNewItem computes (today + 30 days).
DefaultExpiration == "today+30d"

VARIABLES
  mounted,          \* the mount effect has run
  now,              \* the clock generateFormId reads
  nextId,           \* the next value crypto.randomUUID() returns
  items, summary, formId,
  isCameraOpen, isVoiceOpen, isBarcodeOpen, activeItemIndex,
  isLoading, statusMessage, processingItems, toastMessage,
  step, photo,      \* CameraModal's state
  detectedProduct,  \* BarcodeModal's state: <<the product found>>, <<>> for null
  error,            \* BarcodeModal's state: the message shown, "none" for null
  calls,            \* enrichment calls awaiting processVoiceWithN8n / processImageWithN8n
  callCount,        \* enrichment calls started so far
  request,          \* the payload submitInventoryToN8n has posted, while it awaits fetch
  submitCount,      \* submissions started so far
  sentFormIds,      \* the formId of every payload posted so far
  resetTimers       \* pending setTimeout(reset, 3000) callbacks

vars ==
  <<mounted, now, nextId, items, summary, formId, isCameraOpen, isVoiceOpen,
    isBarcodeOpen, activeItemIndex, isLoading, statusMessage, processingItems,
    toastMessage, step, photo, detectedProduct, error, calls, callCount,
    request,
    submitCount, sentFormIds, resetTimers>>

\* ----------------------------------------------------------------- helpers
ItemIds(its) == {its[i].id : i \in 1..Len(its)}

\* items[index] of a JavaScript array: <<>> stands for undefined.
At(its, index) ==
  IF index \in 0..(Len(its) - 1) THEN <<its[index + 1]>> ELSE <<>>

\* -------------------------------------------------------- pure operations
\* `SK${new Date().toISOString().replace(/[-:.]/g, '')}`
generateFormId(time) == <<"SK", time>>

\* Mutant of getNewItem: the id is a constant instead of a fresh UUID.
getNewItemSameId(uuid) ==
  [id |-> 1, category |-> "", donorName |-> "", customDonorText |-> "",
   description |-> "", weightLbs |-> 0, quantity |-> 1,
   expirationDate |-> DefaultExpiration]

getNewItem(uuid) ==
  [id |-> uuid, category |-> "", donorName |-> "", customDonorText |-> "",
   description |-> "", weightLbs |-> 0, quantity |-> 1,
   expirationDate |-> DefaultExpiration]

\* Mutant of updateItem: an upsert, which adds an item when no id matches.
updateItemUpsert(its, id, field, value) ==
  IF id \in ItemIds(its)
  THEN [i \in 1..Len(its) |->
          IF its[i].id = id THEN [its[i] EXCEPT ![field] = value] ELSE its[i]]
  ELSE Append(its, [getNewItem(id) EXCEPT ![field] = value])

\* Mutant of updateItem: the matching item is replaced without spreading it.
updateItemNoSpread(its, id, field, value) ==
  [i \in 1..Len(its) |->
     IF its[i].id = id THEN [getNewItem(id) EXCEPT ![field] = value] ELSE its[i]]

\* setItems(prev => prev.map(item => item.id === id ? {...item, [field]: value} : item))
updateItem(its, id, field, value) ==
  [i \in 1..Len(its) |->
     IF its[i].id = id THEN [its[i] EXCEPT ![field] = value] ELSE its[i]]

\* setItems(prev => prev.filter(item => item.id !== id))
deleteItem(its, id) == SelectSeq(its, LAMBDA it : it.id # id)

\* Mutant of deleteProcessing: the entry is set to false and kept.
deleteProcessingKeepsEntry(proc, id) ==
  [x \in DOMAIN proc |-> IF x = id THEN FALSE ELSE proc[x]]

\* setProcessingItems(prev => { delete newState[id] })
deleteProcessing(proc, id) == [x \in (DOMAIN proc) \ {id} |-> proc[x]]

\* setProcessingItems(prev => ({...prev, [itemId]: isProcessing}))
setItemProcessing(proc, itemId, isProcessing) ==
  [x \in (DOMAIN proc) \cup {itemId} |->
     IF x = itemId THEN isProcessing ELSE proc[x]]

\* isProcessing[item.id] as the item card reads it (undefined is falsy).
isItemProcessing(proc, id) == id \in DOMAIN proc /\ proc[id]

\* JavaScript values: a number is an integer (a weight in thousandths of a
\* pound), a string is a string, undefined is <<>>.
NumberStrings == {ToString(n) : n \in (0 - MaxNumber)..MaxNumber}

typeof(v) ==
  IF ToString(v) \in NumberStrings THEN "number"
  ELSE IF ToString(v) = "<<>>" THEN "undefined"
  ELSE "string"

NaN == "NaN"

\* The strings that Number() reads as a number, with that number.
NumericStrings == [s \in {"3"} |-> 3]

\* String.prototype.trim on the strings of the model.
trim(s) == IF s \in {"", " ", "   "} THEN "" ELSE s

\* Number(v), for a value counted in units of 1/unit.
Number(v, unit) ==
  IF typeof(v) = "number" THEN v
  ELSE IF typeof(v) = "undefined" THEN NaN
  ELSE IF trim(v) = "" THEN 0
  ELSE IF v \in DOMAIN NumericStrings THEN NumericStrings[v] * unit
  ELSE NaN

\* n || 0, for n a number or NaN.
orZero(n) == IF typeof(n) = "number" THEN n ELSE 0

\* Mutant of quantityOf: Number(item.quantity) || 1
quantityOrOne(it) ==
  IF orZero(Number(it.quantity, 1)) = 0 THEN 1 ELSE orZero(Number(it.quantity, 1))

\* Number(item.quantity) || 0 and Number(item.weightLbs) || 0
quantityOf(it) == orZero(Number(it.quantity, 1))
weightOf(it) == orZero(Number(it.weightLbs, 1000))

RECURSIVE sumQuantity(_), sumWeight(_)
sumQuantity(its) ==
  IF Len(its) = 0 THEN 0 ELSE quantityOf(its[1]) + sumQuantity(Tail(its))
sumWeight(its) ==
  IF Len(its) = 0 THEN 0
  ELSE weightOf(its[1]) * quantityOf(its[1]) + sumWeight(Tail(its))

\* The reduction of the summary effect.
computeSummary(its) ==
  [totalItems |-> sumQuantity(its), totalWeightLbs |-> sumWeight(its)]

\* Mutant of summaryEffect: the effect depends on items.length only.
summaryEffectOnLength(oldSummary, oldItems, newItems) ==
  IF Len(newItems) = Len(oldItems) THEN oldSummary ELSE computeSummary(newItems)

\* useEffect(() => setSummary(items.reduce(...)), [items]): runs again when a
\* render sees another items array.
summaryEffect(oldSummary, oldItems, newItems) ==
  IF newItems = oldItems THEN oldSummary ELSE computeSummary(newItems)

\* Mutant of useState: the value is computed again on every render.
useStateEveryRender(stored, initial) == initial

\* useState(initial): the initial value counts on the first render only.
useState(stored, initial) == stored

\* Mutant of isFieldEmpty: a number is empty when at most 0.
isFieldEmptyAtZero(value) ==
  IF typeof(value) = "string" THEN trim(value) = ""
  ELSE IF typeof(value) = "number" THEN value <= 0
  ELSE TRUE

\* isFieldEmpty(value): a string is empty when blank, a number when at most
\* 0.001, anything else when falsy.
isFieldEmpty(value) ==
  IF typeof(value) = "string" THEN trim(value) = ""
  ELSE IF typeof(value) = "number" THEN value <= 1
  ELSE TRUE

\* The increments of getIncompleteFields for one item.
incompleteFieldsOf(it) ==
  (IF isFieldEmpty(it.description) THEN 1 ELSE 0)
  + (IF isFieldEmpty(it.category) THEN 1 ELSE 0)
  + (IF isFieldEmpty(it.donorName) THEN 1 ELSE 0)
  + (IF it.donorName = "custom" /\ isFieldEmpty(it.customDonorText) THEN 1 ELSE 0)
  + (IF isFieldEmpty(it.weightLbs) THEN 1 ELSE 0)
  + (IF isFieldEmpty(it.expirationDate) THEN 1 ELSE 0)

RECURSIVE getIncompleteFields(_)
getIncompleteFields(its) ==
  IF Len(its) = 0 THEN 0
  ELSE incompleteFieldsOf(its[1]) + getIncompleteFields(Tail(its))

\* const allFieldsComplete = incompleteFieldsCount === 0
allFieldsComplete(its) == getIncompleteFields(its) = 0

\* Mutant of knownCategory: the result's category is taken as it is.
knownCategoryUnchecked(c) == c

\* CATEGORIES.includes(c) ? c : 'Other'
knownCategory(c) == IF c \in CATEGORIES THEN c ELSE "Other"

\* Mutant of voiceQuantity: every quantity the result has is written.
voiceQuantityAlways(its, id, result) ==
  IF "quantity" \in DOMAIN result
  THEN updateItem(its, id, "quantity", result.quantity)
  ELSE its

\* The handleUpdateItem calls of handleVoiceSuccess, in order, on item id.
voiceQuantity(its, id, result) ==
  IF "quantity" \in DOMAIN result /\ result.quantity > 1
  THEN updateItem(its, id, "quantity", result.quantity)
  ELSE its

\* Mutant of voiceDonor: a name that is not a known donor is written without
\* the test of its trimmed length.
voiceDonorUntrimmed(its, id, result) ==
  IF "donorName" \in DOMAIN result /\ result.donorName # ""
  THEN IF result.donorName \in DONORS \ {"custom"}
       THEN updateItem(its, id, "donorName", result.donorName)
       ELSE updateItem(updateItem(its, id, "donorName", "custom"),
                       id, "customDonorText", result.donorName)
  ELSE its

voiceDonor(its, id, result) ==
  IF "donorName" \in DOMAIN result /\ result.donorName # ""
  THEN IF result.donorName \in DONORS \ {"custom"}
       THEN updateItem(its, id, "donorName", result.donorName)
       ELSE IF trim(result.donorName) # ""
            THEN updateItem(updateItem(its, id, "donorName", "custom"),
                            id, "customDonorText", result.donorName)
            ELSE its
  ELSE its

voiceMerge(its, id, result) ==
  LET a == updateItem(its, id, "description", result.itemName)
      b == updateItem(a, id, "weightLbs", result.estimatedWeightLbs)
      c == updateItem(b, id, "category", knownCategory(result.category))
      d == voiceQuantity(c, id, result)
  IN  voiceDonor(d, id, result)

\* Mutant of imageMerge: the result is written into a fresh item, not into
\* the item as it is now.
imageMergeIntoNewItem(its, id, result) ==
  [i \in 1..Len(its) |->
     IF its[i].id = id
     THEN [getNewItem(id) EXCEPT !.description = result.description,
                                 !.weightLbs = result.weightLbs,
                                 !.category = knownCategory(result.category)]
     ELSE its[i]]

\* Mutant of imageMerge: the quantity is set back to 1 as well.
imageMergeSettingQuantity(its, id, result) ==
  LET a == updateItem(its, id, "description", result.description)
      b == updateItem(a, id, "weightLbs", result.weightLbs)
      c == updateItem(b, id, "category", knownCategory(result.category))
  IN  updateItem(c, id, "quantity", 1)

\* The handleUpdateItem calls of handleImageSuccess, in order, on item id.
imageMerge(its, id, result) ==
  LET a == updateItem(its, id, "description", result.description)
      b == updateItem(a, id, "weightLbs", result.weightLbs)
  IN  updateItem(b, id, "category", knownCategory(result.category))

\* ------------------------------------------------------- parseProductWeight
\* A text is the sequence of its characters.
Digits == {"0", "1", "2", "3", "4", "5", "6", "7", "8", "9"}
Letters ==
  {"a", "b", "c", "d", "e", "f", "g", "h", "i", "j", "k", "l", "m", "n", "o",
   "p", "q", "r", "s", "t", "u", "v", "w", "x", "y", "z"}
Whitespace == {" "}

digitValue(c) ==
  CASE c = "0" -> 0 [] c = "1" -> 1 [] c = "2" -> 2 [] c = "3" -> 3
    [] c = "4" -> 4 [] c = "5" -> 5 [] c = "6" -> 6 [] c = "7" -> 7
    [] c = "8" -> 8 [] c = "9" -> 9

\* String.prototype.toLowerCase, on the capitals the texts use.
toLowerCase(text) ==
  [i \in 1..Len(text) |->
     CASE text[i] = "G" -> "g" [] text[i] = "K" -> "k" [] text[i] = "L" -> "l"
       [] text[i] = "O" -> "o" [] text[i] = "Z" -> "z" [] text[i] = "B" -> "b"
       [] OTHER -> text[i]]

\* String.prototype.trim
RECURSIVE trimText(_)
trimText(text) ==
  IF text = <<>> THEN text
  ELSE IF Head(text) \in Whitespace THEN trimText(Tail(text))
  ELSE IF text[Len(text)] \in Whitespace
       THEN trimText(SubSeq(text, 1, Len(text) - 1))
  ELSE text

\* The end of the longest run of characters of class from position i on: the
\* position after its last character.
RECURSIVE runEnd(_, _, _)
runEnd(text, i, class) ==
  IF i <= Len(text) /\ text[i] \in class THEN runEnd(text, i + 1, class) ELSE i

\* /(\d+\.?\d*)\s*([a-z]+)/ tried at position i: <<>> when it does not match
\* there, else <<[number, unit]>>, the two groups.  The quantifiers are
\* greedy and backtracking finds no other match: a shorter run of digits
\* is followed by a digit, and a dot not taken is no whitespace or letter.
matchAt(text, i) ==
  IF ~(i <= Len(text) /\ text[i] \in Digits) THEN <<>>
  ELSE LET a == runEnd(text, i, Digits)
           b == IF a <= Len(text) /\ text[a] = "."
                THEN runEnd(text, a + 1, Digits) ELSE a
           c == runEnd(text, b, Whitespace)
           d == runEnd(text, c, Letters)
       IN  IF d > c
           THEN <<[number |-> SubSeq(text, i, b - 1), unit |-> SubSeq(text, c, d - 1)]>>
           ELSE <<>>

\* String.prototype.match without the g flag: the match at the leftmost
\* position that has one, from position i on.
RECURSIVE match(_, _)
match(text, i) ==
  IF i > Len(text) THEN <<>>
  ELSE IF matchAt(text, i) # <<>> THEN matchAt(text, i)
  ELSE match(text, i + 1)

\* parseFloat of the number group, as the decimal [digits, places]: the value
\* is digits / 10^places.
RECURSIVE parseDigits(_, _)
parseDigits(number, acc) ==
  IF number = <<>> THEN acc
  ELSE IF Head(number) = "." THEN parseDigits(Tail(number), acc)
  ELSE parseDigits(Tail(number), 10 * acc + digitValue(Head(number)))

RECURSIVE decimalPlaces(_)
decimalPlaces(number) ==
  IF number = <<>> THEN 0
  ELSE IF Head(number) = "." THEN Len(number) - 1
  ELSE decimalPlaces(Tail(number))

parseFloat(number) ==
  [digits |-> parseDigits(number, 0), places |-> decimalPlaces(number)]

RECURSIVE pow10(_)
pow10(n) == IF n = 0 THEN 1 ELSE 10 * pow10(n - 1)

\* The switch on the unit: <<>> for the default branch, else the pounds per
\* unit times 100 as the fraction <<numerator, denominator>>.
unitFactor(unit) ==
  IF unit \in
    {<<"g">>, <<"g", "r", "a", "m">>, <<"g", "r", "a", "m", "s">>}
    THEN <<220462, 1000000>>
  ELSE IF unit \in
    {<<"k", "g">>, <<"k", "i", "l", "o", "g", "r", "a", "m">>,
     <<"k", "i", "l", "o", "g", "r", "a", "m", "s">>}
    THEN <<220462, 1000>>
  ELSE IF unit \in
    {<<"o", "z">>, <<"o", "u", "n", "c", "e">>,
     <<"o", "u", "n", "c", "e", "s">>}
    THEN <<625, 100>>
  ELSE IF unit \in
    {<<"l", "b">>, <<"l", "b", "s">>, <<"p", "o", "u", "n", "d">>,
     <<"p", "o", "u", "n", "d", "s">>}
    THEN <<100, 1>>
  ELSE IF unit \in
    {<<"m", "l">>, <<"m", "i", "l", "l", "i", "l", "i", "t", "e", "r">>,
     <<"m", "i", "l", "l", "i", "l", "i", "t", "e", "r", "s">>}
    THEN <<220462, 1000000>>
  ELSE IF unit \in
    {<<"l">>, <<"l", "i", "t", "e", "r">>,
     <<"l", "i", "t", "e", "r", "s">>}
    THEN <<220462, 1000>>
  ELSE IF unit \in
    {<<"f", "l">>, <<"f", "l", "o", "z">>}
    THEN <<652, 100>>
  ELSE <<>>

\* Math.round of the fraction n / d (d is 1 or even, n >= 0).
mathRound(n, d) == IF d = 1 THEN n ELSE (n + d \div 2) \div d

\* Mutant of parseProductWeight: the variant of App.tsx, which does not
\* round (the value is cut to the thousandth here).
parseProductWeightUnrounded(quantityString) ==
  IF quantityString = <<>> THEN 0
  ELSE LET found == match(trimText(toLowerCase(quantityString)), 1) IN
       IF found = <<>> THEN 0
       ELSE LET value == parseFloat(found[1].number)
                factor == unitFactor(found[1].unit)
            IN  IF factor = <<>> THEN 0
                ELSE (value.digits * factor[1] * 10)
                       \div (factor[2] * pow10(value.places))

\* parseProductWeight(quantityString), in thousandths of a pound.
parseProductWeight(quantityString) ==
  IF quantityString = <<>> THEN 0
  ELSE LET found == match(trimText(toLowerCase(quantityString)), 1) IN
       IF found = <<>> THEN 0
       ELSE LET value == parseFloat(found[1].number)
                factor == unitFactor(found[1].unit)
            IN  IF factor = <<>> THEN 0
                ELSE 10 * mathRound(value.digits * factor[1],
                                    factor[2] * pow10(value.places))

\* The handleUpdateItem calls of handleBarcodeSuccess, in order, on item id.
barcodeDescription(productInfo) ==
  IF "brand" \in DOMAIN productInfo /\ productInfo.brand # ""
  THEN productInfo.brand \o " - " \o productInfo.name
  ELSE productInfo.name

barcodeCategory(productInfo) ==
  IF /\ "category" \in DOMAIN productInfo
     /\ productInfo.category # ""
     /\ productInfo.category \in CATEGORIES
  THEN productInfo.category
  ELSE "Other"

\* Mutant of barcodeWeight: the parsed weight is written whatever it is.
barcodeWeightAlways(its, id, productInfo) ==
  IF "weight" \in DOMAIN productInfo
  THEN updateItem(its, id, "weightLbs", parseProductWeight(productInfo.weight))
  ELSE its

barcodeWeight(its, id, productInfo) ==
  IF "weight" \in DOMAIN productInfo /\ productInfo.weight # <<>>
  THEN LET weight == parseProductWeight(productInfo.weight) IN
       IF weight > 0 THEN updateItem(its, id, "weightLbs", weight) ELSE its
  ELSE its

barcodeMerge(its, id, productInfo) ==
  LET a == updateItem(its, id, "description", barcodeDescription(productInfo))
      b == updateItem(a, id, "category", barcodeCategory(productInfo))
  IN  barcodeWeight(b, id, productInfo)

\* ------------------------------------------------------ render closures
\* What a handler created by a render sees of items and activeItemIndex.
\* The handlers read items only to take the id of items[activeItemIndex].
Render ==
  [itemIds |-> [i \in 1..Len(items) |-> items[i].id],
   activeItemIndex |-> activeItemIndex]

\* const currentItem = items[activeItemIndex], in closure cl:
\* <<>> when activeItemIndex is null or no item is at that index.
currentItem(cl) ==
  IF cl.activeItemIndex = NoIndex THEN <<>>
  ELSE At(cl.itemIds, cl.activeItemIndex)

\* Mutant of successClosure: onSuccess reads the live render, so the item at
\* the current activeItemIndex.
successClosureLive(call, live) == live

\* The closure in which the onSuccess of an enrichment call runs: the modal's
\* handler took onSuccess from its props when it was invoked.
successClosure(call, live) == call.closure

\* -------------------------------------------------- the enrichment client
VoiceResults ==
  {[itemName |-> "Soup", category |-> "Canned Goods",
    estimatedWeightLbs |-> 1000, quantity |-> 2, donorName |-> "Safeway"]}

ImageResults ==
  {[description |-> "Beans", category |-> "Dairy", weightLbs |-> 500]}

\* What fetch does: it rejects, answers with a non-2xx status, or answers 2xx.
Responses(results) ==
  {[kind |-> "reject"], [kind |-> "status"]} \cup
  {[kind |-> "ok", json |-> r] : r \in results}

\* Mutant of processVoiceWithN8n: an error is swallowed and an empty result
\* returned.
processVoiceSwallowingErrors(text, response) ==
  IF text # "" /\ response.kind = "ok" THEN <<response.json>>
  ELSE <<[itemName |-> "", category |-> "", estimatedWeightLbs |-> 0]>>

\* processVoiceWithN8n(text) given fetch's response: <<result>> or <<>> (throws).
processVoiceWithN8n(text, response) ==
  IF text = "" THEN <<>>
  ELSE IF response.kind = "ok" THEN <<response.json>> ELSE <<>>

\* processImageWithN8n(imageBlob) given fetch's response.
processImageWithN8n(response) ==
  IF response.kind = "ok" THEN <<response.json>> ELSE <<>>

\* Mutant of resolveDonor: the item is posted as it is.
resolveDonorNever(it) == it

\* items.map(item => ({...item, donorName: custom ? customDonorText : donorName}))
resolveDonor(it) ==
  [it EXCEPT !.donorName =
     IF it.donorName = "custom" THEN it.customDonorText ELSE it.donorName]

\* The payload submitInventoryToN8n posts.
submitPayload(its, sum, fid, date) ==
  [formId |-> fid, submissionDate |-> date, summary |-> sum,
   items |-> [i \in 1..Len(its) |-> resolveDonor(its[i])]]

\* ------------------------------------------------------------------- Init
Init ==
  /\ mounted = FALSE
  /\ now = 0
  /\ nextId = 1
  /\ items = <<>>
  /\ summary = [totalItems |-> 0, totalWeightLbs |-> 0]
  /\ formId = generateFormId(0)
  /\ isCameraOpen = FALSE
  /\ isVoiceOpen = FALSE
  /\ isBarcodeOpen = FALSE
  /\ activeItemIndex = NoIndex
  /\ isLoading = FALSE
  /\ statusMessage = "none"
  /\ processingItems = <<>>
  /\ toastMessage = "none"
  /\ step = "camera"
  /\ photo = ""
  /\ detectedProduct = <<>>
  /\ error = "none"
  /\ calls = {}
  /\ callCount = 0
  /\ request = <<>>
  /\ submitCount = 0
  /\ sentFormIds = {}
  /\ resetTimers = 0

\* A modal's overlay covers the form: the cards and buttons under it get no
\* clicks while a modal is open.
NoModalOpen == ~isCameraOpen /\ ~isVoiceOpen /\ ~isBarcodeOpen

FormUsable == mounted /\ NoModalOpen

ModalVars == <<isCameraOpen, isVoiceOpen, isBarcodeOpen, activeItemIndex>>
CameraVars == <<step, photo>>
BarcodeVars == <<detectedProduct, error>>
SubmitVars == <<isLoading, statusMessage, request, submitCount, sentFormIds, resetTimers>>
CallVars == <<calls, callCount>>
ToastVars == <<toastMessage>>
ClockVars == <<now, formId>>

\* ------------------------------------------------------------ item editing
\* useEffect(() => { if (items.length === 0) handleAddItem() }, [])
mountEffect ==
  /\ ~mounted
  /\ mounted' = TRUE
  /\ items' = IF Len(items) = 0 THEN Append(items, getNewItem(nextId)) ELSE items
  /\ nextId' = IF Len(items) = 0 THEN nextId + 1 ELSE nextId
  /\ summary' = summaryEffect(summary, items, items')
  /\ UNCHANGED <<BarcodeVars, ModalVars, CameraVars, SubmitVars, CallVars, ToastVars,
                 ClockVars, processingItems>>

\* Mutant of handleAddItem: the new item is put in front.
handleAddItemInFront ==
  /\ FormUsable
  /\ Len(items) < MaxItems
  /\ nextId <= MaxIds
  /\ items' = <<getNewItem(nextId)>> \o items
  /\ nextId' = nextId + 1
  /\ summary' = summaryEffect(summary, items, items')
  /\ UNCHANGED <<BarcodeVars, mounted, ModalVars, CameraVars, SubmitVars, CallVars,
                 ToastVars, ClockVars, processingItems>>

\* setItems(prev => [...prev, getNewItem()])
handleAddItem ==
  /\ FormUsable
  /\ Len(items) < MaxItems
  /\ nextId <= MaxIds
  /\ items' = Append(items, getNewItem(nextId))
  /\ nextId' = nextId + 1
  /\ summary' = summaryEffect(summary, items, items')
  /\ UNCHANGED <<BarcodeVars, mounted, ModalVars, CameraVars, SubmitVars, CallVars,
                 ToastVars, ClockVars, processingItems>>

\* Math.round(parsedValue * 100) / 100 on thousandths of a pound.
roundToCents(w) == ((w + 5) \div 10) * 10

\* InventoryItemCard.handleNumberChange: the value handed to onUpdate for the
\* number parsed from the input (0 when it does not parse).
handleNumberChange(name, parsedValue) ==
  IF name = "weightLbs" /\ parsedValue > 0 THEN roundToCents(parsedValue)
  ELSE parsedValue

\* The edits a user makes on an item card (handleInputChange, handleNumberChange).
UserEdits ==
  {<<"quantity", 3>>}

handleUpdateItem(id, field, value) ==
  /\ FormUsable
  /\ items' = updateItem(items, id, field, value)
  /\ summary' = summaryEffect(summary, items, items')
  /\ UNCHANGED <<BarcodeVars, mounted, nextId, ModalVars, CameraVars, SubmitVars, CallVars,
                 ToastVars, ClockVars, processingItems>>

handleDeleteItem(id) ==
  /\ FormUsable
  /\ items' = deleteItem(items, id)
  /\ processingItems' = deleteProcessing(processingItems, id)
  /\ summary' = summaryEffect(summary, items, items')
  /\ UNCHANGED <<BarcodeVars, mounted, nextId, ModalVars, CameraVars, SubmitVars, CallVars,
                 ToastVars, ClockVars>>

\* ------------------------------------------------------------------ modals
\* The smart-input buttons of a card: disabled={isItemProcessing}
smartInputDisabled(proc, id) == isItemProcessing(proc, id)

\* A click on a smart-input button of the card at index.
handleOpenModal(modal, index) ==
  /\ FormUsable
  /\ index \in 0..(Len(items) - 1)
  /\ ~smartInputDisabled(processingItems, items[index + 1].id)
  /\ activeItemIndex' = index
  /\ isCameraOpen' = IF modal = "camera" THEN TRUE ELSE isCameraOpen
  /\ isVoiceOpen' = IF modal = "voice" THEN TRUE ELSE isVoiceOpen
  /\ isBarcodeOpen' = IF modal = "barcode" THEN TRUE ELSE isBarcodeOpen
  /\ UNCHANGED <<BarcodeVars, mounted, nextId, items, summary, CameraVars, SubmitVars,
                 CallVars, ToastVars, ClockVars, processingItems>>

\* VoiceModal.handleClose -> onClose
closeVoiceModal ==
  /\ isVoiceOpen
  /\ isVoiceOpen' = FALSE
  /\ UNCHANGED <<BarcodeVars, mounted, nextId, items, summary, isCameraOpen, isBarcodeOpen,
                 activeItemIndex, CameraVars, SubmitVars, CallVars, ToastVars,
                 ClockVars, processingItems>>

\* BarcodeModal.handleClose: setDetectedProduct(null), then onClose.
closeBarcodeModal ==
  /\ isBarcodeOpen
  /\ detectedProduct' = <<>>
  /\ error' = "none"
  /\ isBarcodeOpen' = FALSE
  /\ UNCHANGED <<mounted, nextId, items, summary, isCameraOpen, isVoiceOpen,
                 activeItemIndex, CameraVars, SubmitVars, CallVars, ToastVars,
                 ClockVars, processingItems>>

\* BarcodeModal.handlePhotoInstead: handleClose, then onPhotoInstead.
handlePhotoInstead ==
  /\ isBarcodeOpen
  /\ detectedProduct' = <<>>
  /\ error' = "none"
  /\ isBarcodeOpen' = FALSE
  /\ isCameraOpen' = TRUE
  /\ UNCHANGED <<mounted, nextId, items, summary, isVoiceOpen,
                 activeItemIndex, CameraVars, SubmitVars, CallVars, ToastVars,
                 ClockVars, processingItems>>

\* The quantity texts of the products a lookup can find.
WeightTexts ==
  {<<>>,
   <<"g", "a", "r", "b", "a", "g", "e">>,
   <<"1", "6">>,
   <<"1", "6", " ", "o", "z">>,
   <<"5", "0", "0", " ", "g">>,
   <<"5", " ", "x", "y", "z">>,
   <<"0", " ", "g">>,
   <<"1", " ", "g">>,
   <<"1", ".", "5", " ", "k", "g">>,
   <<" ", "1", "2", "O", "Z", " ">>,
   <<"-", "5", " ", "l", "b">>,
   <<"2", " ", "l", "b", " ", "8", " ", "o", "z">>,
   <<"2", " ", "x", " ", "1", "0", "0", " ", "g">>,
   <<"n", "e", "t", " ", "3", " ", "l", "b", "s">>,
   <<"1", "2", " ", "f", "l", " ", "o", "z">>,
   <<"1", ".", "5", ".", "2", " ", "k", "g">>}

\* The ProductInfo values onSuccess can get: what BarcodeModal.lookupBarcode
\* builds (brand, category and weight always there, '' when unknown), and
\* values of the interface with optional fields left out.
ProductInfos ==
  {[name |-> "Corn", brand |-> "", category |-> "Canned Goods",
    weight |-> t, barcode |-> "0123456789012"] : t \in WeightTexts}
  \cup
  {[name |-> "Milk", barcode |-> "0123456789029"],
   [name |-> "Milk", brand |-> "Acme", category |-> "Groceries",
    weight |-> <<"4", " ", "l", "b">>, barcode |-> "0123456789029"]}

\* BarcodeModal.lookupBarcode, the product found: setDetectedProduct(productInfo)
lookupBarcode(productInfo) ==
  /\ isBarcodeOpen
  /\ detectedProduct = <<>>
  /\ error = "none"
  /\ detectedProduct' = <<productInfo>>
  /\ error' = "none"
  /\ UNCHANGED <<mounted, nextId, items, summary, ModalVars, CameraVars,
                 SubmitVars, CallVars, ToastVars, ClockVars, processingItems>>

\* BarcodeModal.handleRescan
handleRescan ==
  /\ isBarcodeOpen
  /\ detectedProduct # <<>> \/ error # "none"
  /\ detectedProduct' = <<>>
  /\ error' = "none"
  /\ UNCHANGED <<mounted, nextId, items, summary, ModalVars, CameraVars,
                 SubmitVars, CallVars, ToastVars, ClockVars, processingItems>>

\* Mutant of handleBarcodeSuccess: without the two early returns, the item
\* at the index, or the last item when there is none, is merged into.
handleBarcodeSuccessUnguarded(cl, its, productInfo) ==
  IF its = <<>> THEN its
  ELSE IF currentItem(cl) = <<>>
       THEN barcodeMerge(its, its[Len(its)].id, productInfo)
       ELSE barcodeMerge(its, currentItem(cl)[1], productInfo)

\* The items after handleBarcodeSuccess(productInfo) ran in closure cl: it
\* returns early without a current item.
handleBarcodeSuccess(cl, its, productInfo) ==
  LET cur == currentItem(cl) IN
  IF cur = <<>> THEN its ELSE barcodeMerge(its, cur[1], productInfo)

\* The messages lookupBarcode's two failure branches set.
LookupErrors == {"Product not found in database", "Failed to lookup product"}

\* Mutant of lookupBarcodeFailed: the failure is reported and the barcode
\* alone is handed to onSuccess as a product without a name.
lookupBarcodeFailedMerging(message) ==
  /\ isBarcodeOpen
  /\ detectedProduct = <<>>
  /\ error = "none"
  /\ error' = message
  /\ items' = handleBarcodeSuccess(Render, items,
                                   [name |-> "", barcode |-> "0123456789012"])
  /\ summary' = summaryEffect(summary, items, items')
  /\ UNCHANGED <<detectedProduct, mounted, nextId, ModalVars, CameraVars,
                 SubmitVars, CallVars, ToastVars, ClockVars, processingItems>>

\* BarcodeModal.lookupBarcode, no product found (data.status is not 1, or
\* the product has no name) or fetch / json threw: setError(message), and
\* nothing else.
lookupBarcodeFailed(message) ==
  /\ isBarcodeOpen
  /\ detectedProduct = <<>>
  /\ error = "none"
  /\ error' = message
  /\ UNCHANGED <<detectedProduct, mounted, nextId, items, summary, ModalVars,
                 CameraVars, SubmitVars, CallVars, ToastVars, ClockVars,
                 processingItems>>

\* BarcodeModal.handleConfirmProduct ('Use This Product'): onSuccess in the
\* live render, then handleClose.
handleConfirmProduct ==
  /\ isBarcodeOpen
  /\ detectedProduct # <<>>
  /\ items' = handleBarcodeSuccess(Render, items, detectedProduct[1])
  /\ summary' = summaryEffect(summary, items, items')
  /\ detectedProduct' = <<>>
  /\ error' = "none"
  /\ isBarcodeOpen' = FALSE
  /\ UNCHANGED <<mounted, nextId, isCameraOpen, isVoiceOpen, activeItemIndex,
                 CameraVars, SubmitVars, CallVars, ToastVars, ClockVars,
                 processingItems>>

\* CameraModal.takePhoto, with the video ready.
takePhoto ==
  /\ isCameraOpen
  /\ step = "camera"
  /\ photo' = "data:image/png"
  /\ step' = "preview"
  /\ UNCHANGED <<BarcodeVars, mounted, nextId, items, summary, ModalVars, SubmitVars,
                 CallVars, ToastVars, ClockVars, processingItems>>

retakePhoto ==
  /\ isCameraOpen
  /\ step = "preview"
  /\ photo' = ""
  /\ step' = "camera"
  /\ UNCHANGED <<BarcodeVars, mounted, nextId, items, summary, ModalVars, SubmitVars,
                 CallVars, ToastVars, ClockVars, processingItems>>

\* CameraModal.closeModal (Cancel, or a click on the backdrop in any step).
closeModal ==
  /\ isCameraOpen
  /\ step' = "camera"
  /\ photo' = ""
  /\ isCameraOpen' = FALSE
  /\ UNCHANGED <<BarcodeVars, mounted, nextId, items, summary, isVoiceOpen, isBarcodeOpen,
                 activeItemIndex, SubmitVars, CallVars, ToastVars, ClockVars,
                 processingItems>>

\* -------------------------------------------------------------- enrichment
Transcripts == {"tomato soup"}

\* handleVoiceProcess / handleImageProcess up to the await, in the live render:
\* they throw before any state change when there is no current item.
startCall(kind, text) ==
  LET cur == currentItem(Render) IN
  IF cur = <<>>
  THEN UNCHANGED <<processingItems, calls, callCount>>
  ELSE /\ processingItems' = setItemProcessing(processingItems, cur[1], TRUE)
       /\ calls' = calls \cup
            {[n |-> callCount + 1, kind |-> kind, text |-> text,
              itemId |-> cur[1], closure |-> Render]}
       /\ callCount' = callCount + 1

\* VoiceModal.handleProcess (the Process button is disabled on a blank
\* transcript): close the modal, then run onProcess in the background.
handleProcess(text, limit) ==
  /\ isVoiceOpen
  /\ trim(text) # ""
  /\ callCount < limit
  /\ isVoiceOpen' = FALSE
  /\ startCall("voice", trim(text))
  /\ UNCHANGED <<BarcodeVars, mounted, nextId, items, summary, isCameraOpen, isBarcodeOpen,
                 activeItemIndex, CameraVars, SubmitVars, ToastVars, ClockVars>>

\* CameraModal.processPhoto up to the await of onCapture.  When onCapture
\* throws at once the catch block puts the modal back to the preview step.
processPhoto(limit) ==
  /\ isCameraOpen
  /\ step = "preview"
  /\ photo # ""
  /\ callCount < limit
  /\ step' = IF currentItem(Render) = <<>> THEN "preview" ELSE "processing"
  /\ startCall("image", photo)
  /\ UNCHANGED <<BarcodeVars, mounted, nextId, items, summary, ModalVars, photo, SubmitVars,
                 ToastVars, ClockVars>>

\* Mutant of finallyProcessing: the flag is cleared after the await inside
\* the try block, so only when the call succeeded.
clearProcessingOnSuccess(proc, itemId, ok) ==
  IF ok THEN setItemProcessing(proc, itemId, FALSE) ELSE proc

\* try { await ... } finally { setItemProcessing(currentItem.id, false) }:
\* the flag is cleared whether the call succeeded (ok) or threw.
finallyProcessing(proc, itemId, ok) == setItemProcessing(proc, itemId, FALSE)

\* Mutant of applySuccess: the result goes to the item that is at the
\* closure's activeItemIndex now.
applySuccessAtIndex(kind, cl, its, result) ==
  LET cur == IF cl.activeItemIndex = NoIndex THEN <<>>
             ELSE At(its, cl.activeItemIndex) IN
  IF cur = <<>> THEN its
  ELSE IF kind = "voice" THEN voiceMerge(its, cur[1].id, result)
       ELSE imageMerge(its, cur[1].id, result)

\* Mutant of applySuccess: a result is merged only into an item that has no
\* description yet, so the first result to arrive stays.
applySuccessOnce(kind, cl, its, result) ==
  LET cur == currentItem(cl) IN
  IF cur = <<>> THEN its
  ELSE IF \E i \in 1..Len(its) : its[i].id = cur[1] /\ its[i].description # ""
       THEN its
  ELSE IF kind = "voice" THEN voiceMerge(its, cur[1], result)
       ELSE imageMerge(its, cur[1], result)

\* Mutant of applySuccess: a result for an item that is no longer in the list
\* is merged into a new item with the id the call was started for.
applySuccessRestoring(kind, cl, its, result) ==
  LET cur == currentItem(cl)
      all == IF cur = <<>> \/ cur[1] \in ItemIds(its) THEN its
             ELSE Append(its, getNewItem(cur[1])) IN
  IF cur = <<>> THEN its
  ELSE IF kind = "voice" THEN voiceMerge(all, cur[1], result)
       ELSE imageMerge(all, cur[1], result)

\* The items after onSuccess(result) ran in closure cl: handleVoiceSuccess /
\* handleImageSuccess return early without a current item.
applySuccess(kind, cl, its, result) ==
  LET cur == currentItem(cl) IN
  IF cur = <<>> THEN its
  ELSE IF kind = "voice" THEN voiceMerge(its, cur[1], result)
       ELSE imageMerge(its, cur[1], result)

\* The call's promise settles: finally clears the flag; on success the
\* modal's continuation calls onSuccess, on failure a toast is shown.
settleVoice(call, response) ==
  LET got == processVoiceWithN8n(call.text, response) IN
  /\ call \in calls
  /\ call.kind = "voice"
  /\ calls' = calls \ {call}
  /\ processingItems' = finallyProcessing(processingItems, call.itemId, got # <<>>)
  /\ IF got # <<>>
     THEN /\ items' = applySuccess("voice", successClosure(call, Render), items, got[1])
          /\ UNCHANGED ToastVars
     ELSE /\ items' = items
          /\ toastMessage' = "error"
  /\ summary' = summaryEffect(summary, items, items')
  /\ UNCHANGED <<BarcodeVars, mounted, nextId, ModalVars, CameraVars, SubmitVars, callCount,
                 ClockVars>>

\* As settleVoice; CameraModal's continuation then closes the modal on
\* success and goes back to the preview step on failure.
settleImage(call, response) ==
  LET got == processImageWithN8n(response) IN
  /\ call \in calls
  /\ call.kind = "image"
  /\ calls' = calls \ {call}
  /\ processingItems' = finallyProcessing(processingItems, call.itemId, got # <<>>)
  /\ IF got # <<>>
     THEN /\ items' = applySuccess("image", successClosure(call, Render), items, got[1])
          /\ step' = "camera"
          /\ photo' = ""
          /\ isCameraOpen' = FALSE
          /\ UNCHANGED ToastVars
     ELSE /\ items' = items
          /\ step' = "preview"
          /\ toastMessage' = "error"
          /\ UNCHANGED <<photo, isCameraOpen>>
  /\ summary' = summaryEffect(summary, items, items')
  /\ UNCHANGED <<BarcodeVars, mounted, nextId, isVoiceOpen, isBarcodeOpen, activeItemIndex,
                 SubmitVars, callCount, ClockVars>>

\* setToastMessage(null): the toast's close button, or the 8 s timer that
\* every failure starts.
clearToast ==
  /\ toastMessage # "none"
  /\ toastMessage' = "none"
  /\ UNCHANGED <<BarcodeVars, mounted, nextId, items, summary, ModalVars, CameraVars,
                 SubmitVars, CallVars, ClockVars, processingItems>>

\* Mutant of submitEnabled: the button is disabled only without items.
submitEnabledWhileLoading == Len(items) # 0

\* -------------------------------------------------------------- submission
\* The submit button: disabled={isLoading || items.length === 0}
submitEnabled == ~isLoading /\ Len(items) # 0

\* The browser's constraint validation of <form onSubmit={handleSubmit}>: a
\* click on the submit button calls handleSubmit only when every control of
\* every card is valid.  The text inputs, selects and the date input are
\* required (any non-empty value, blanks included, will do); quantity is
\* required with min="1"; the weight input is not required and shows '' or a
\* two-decimal value, so it is always valid.
cardValid(it) ==
  /\ it.description # ""
  /\ it.category # ""
  /\ it.donorName # ""
  /\ (it.donorName = "custom" => it.customDonorText # "")
  /\ it.quantity >= 1
  /\ it.expirationDate # ""

checkValidity(its) == \A i \in 1..Len(its) : cardValid(its[i])

\* handleSubmit up to the await: submitInventoryToN8n builds the payload from
\* the items, summary and formId of the live render and posts it.
handleSubmit(limit) ==
  /\ FormUsable
  /\ submitEnabled
  /\ checkValidity(items)
  /\ submitCount < limit
  /\ isLoading' = TRUE
  /\ statusMessage' = "none"
  /\ request' = <<submitPayload(items, summary, formId, now)>>
  /\ sentFormIds' = sentFormIds \cup {formId}
  /\ submitCount' = submitCount + 1
  /\ UNCHANGED <<BarcodeVars, mounted, nextId, items, summary, ModalVars, CameraVars,
                 CallVars, ToastVars, ClockVars, processingItems, resetTimers>>

submitSuccess ==
  /\ request # <<>>
  /\ request' = <<>>
  /\ statusMessage' = "success"
  /\ resetTimers' = resetTimers + 1
  /\ isLoading' = FALSE
  /\ UNCHANGED <<BarcodeVars, mounted, nextId, items, summary, ModalVars, CameraVars,
                 CallVars, ToastVars, ClockVars, processingItems, submitCount,
                 sentFormIds>>

submitFailure ==
  /\ request # <<>>
  /\ request' = <<>>
  /\ statusMessage' = "error"
  /\ isLoading' = FALSE
  /\ UNCHANGED <<BarcodeVars, mounted, nextId, items, summary, ModalVars, CameraVars,
                 CallVars, ToastVars, ClockVars, processingItems, submitCount,
                 sentFormIds, resetTimers>>

\* setTimeout(() => { setItems([getNewItem()]); setStatusMessage(null) }, 3000)
\* The render that follows evaluates useState(generateFormId()) again.
resetTimeout ==
  /\ resetTimers > 0
  /\ resetTimers' = resetTimers - 1
  /\ now' = now + 1
  /\ items' = <<getNewItem(nextId)>>
  /\ nextId' = nextId + 1
  /\ statusMessage' = "none"
  /\ summary' = summaryEffect(summary, items, items')
  /\ formId' = useState(formId, generateFormId(now'))
  /\ UNCHANGED <<BarcodeVars, mounted, ModalVars, CameraVars, CallVars, ToastVars,
                 processingItems, isLoading, request, submitCount, sentFormIds>>

\* -------------------------------------------------------------------- Next
Next ==
  \/ mountEffect
  \/ handleAddItem
  \/ \E id \in ItemIds(items), e \in UserEdits : handleUpdateItem(id, e[1], e[2])
  \/ \E id \in ItemIds(items) : handleDeleteItem(id)
  \/ \E modal \in {"camera", "voice", "barcode"}, index \in 0..(MaxItems - 1) :
       handleOpenModal(modal, index)
  \/ closeVoiceModal
  \/ closeBarcodeModal
  \/ handlePhotoInstead
  \/ takePhoto
  \/ retakePhoto
  \/ closeModal
  \/ \E text \in Transcripts : handleProcess(text, MaxCalls)
  \/ processPhoto(MaxCalls)
  \/ \E call \in calls, response \in Responses(VoiceResults) : settleVoice(call, response)
  \/ \E call \in calls, response \in Responses(ImageResults) : settleImage(call, response)
  \/ clearToast
  \/ handleSubmit(MaxSubmits)
  \/ submitSuccess
  \/ submitFailure
  \/ resetTimeout

Spec == Init /\ [][Next]_vars

\* The edits that fill in the required fields of a card by hand.
FillEdits ==
  {<<"description", "Rice">>, <<"category", "Pantry Staples">>,
   <<"donorName", "Perkins">>}

\* A session that uses no smart input and submits repeatedly.
ManualNext ==
  \/ mountEffect
  \/ handleAddItem
  \/ \E id \in ItemIds(items), e \in FillEdits : handleUpdateItem(id, e[1], e[2])
  \/ \E id \in ItemIds(items) : handleDeleteItem(id)
  \/ handleSubmit(MaxResubmits)
  \/ submitSuccess
  \/ submitFailure
  \/ resetTimeout

ManualSpec == Init /\ [][ManualNext]_vars

\* The edits of a session that fills in the form by hand: texts (a blank one
\* included), selections, the custom donor and typed weights.
FormEdits ==
  {<<"description", "Rice">>, <<"description", "   ">>,
   <<"category", "Dairy">>,
   <<"donorName", "Safeway">>, <<"donorName", "custom">>,
   <<"customDonorText", "Church">>,
   <<"weightLbs", handleNumberChange("weightLbs", 4)>>,
   <<"weightLbs", handleNumberChange("weightLbs", 1234)>>}

\* A session that fills in the form by hand and submits it.
FormNext ==
  \/ mountEffect
  \/ handleAddItem
  \/ \E id \in ItemIds(items), e \in FormEdits : handleUpdateItem(id, e[1], e[2])
  \/ \E id \in ItemIds(items) : handleDeleteItem(id)
  \/ handleSubmit(MaxSubmits)
  \/ submitSuccess
  \/ submitFailure
  \/ resetTimeout

FormSpec == Init /\ [][FormNext]_vars

\* The values weightLbs and quantity can hold: numbers, and what an untyped
\* JSON result can put there (a text, a numeric text, nothing).
SummaryWeights == <<0, 500, 2000, "abc", "3", <<>>>>
SummaryQuantities == <<1, 3, 10, 0, "abc", "3", <<>>>>

SummaryItem(id, w, q) ==
  [getNewItem(id) EXCEPT !.weightLbs = SummaryWeights[w],
                         !.quantity = SummaryQuantities[q]]

\* The recorder with up to MaxItems items of any weight and quantity, the
\* summary effect having run.
SummaryInit ==
  /\ \E n \in 0..MaxItems :
       \E w \in [1..n -> 1..Len(SummaryWeights)],
          q \in [1..n -> 1..Len(SummaryQuantities)] :
         items = [i \in 1..n |-> SummaryItem(i, w[i], q[i])]
  /\ nextId = Len(items) + 1
  /\ summary = computeSummary(items)
  /\ mounted = TRUE
  /\ now = 0
  /\ formId = generateFormId(0)
  /\ isCameraOpen = FALSE
  /\ isVoiceOpen = FALSE
  /\ isBarcodeOpen = FALSE
  /\ activeItemIndex = NoIndex
  /\ isLoading = FALSE
  /\ statusMessage = "none"
  /\ processingItems = <<>>
  /\ toastMessage = "none"
  /\ step = "camera"
  /\ photo = ""
  /\ detectedProduct = <<>>
  /\ error = "none"
  /\ calls = {}
  /\ callCount = 0
  /\ request = <<>>
  /\ submitCount = 0
  /\ sentFormIds = {}
  /\ resetTimers = 0

\* The steps that change the length of items, each followed by the summary
\* effect.
SummaryNext ==
  \/ handleAddItem
  \/ \E id \in ItemIds(items) : handleDeleteItem(id)

SummarySpec == SummaryInit /\ [][SummaryNext]_vars

\* The values of the fields the completeness check reads, and of quantity.
FieldValues ==
  [description : {"", "   ", "Rice"}, category : {"", "Dairy"},
   donorName : {"", "Safeway", "custom"}, customDonorText : {"", "Church"},
   weightLbs : {0, 1, 2, 500}, expirationDate : {"", DefaultExpiration},
   quantity : {0, 1}]

\* The recorder with one item of any field values, the summary effect having
\* run.
FieldsInit ==
  /\ \E v \in FieldValues :
       items = <<[id |-> 1, category |-> v.category, donorName |-> v.donorName,
                  customDonorText |-> v.customDonorText,
                  description |-> v.description, weightLbs |-> v.weightLbs,
                  quantity |-> v.quantity, expirationDate |-> v.expirationDate]>>
  /\ nextId = 2
  /\ summary = computeSummary(items)
  /\ mounted = TRUE
  /\ now = 0
  /\ formId = generateFormId(0)
  /\ isCameraOpen = FALSE
  /\ isVoiceOpen = FALSE
  /\ isBarcodeOpen = FALSE
  /\ activeItemIndex = NoIndex
  /\ isLoading = FALSE
  /\ statusMessage = "none"
  /\ processingItems = <<>>
  /\ toastMessage = "none"
  /\ step = "camera"
  /\ photo = ""
  /\ detectedProduct = <<>>
  /\ error = "none"
  /\ calls = {}
  /\ callCount = 0
  /\ request = <<>>
  /\ submitCount = 0
  /\ sentFormIds = {}
  /\ resetTimers = 0

FieldEdits == {<<"description", "Rice">>, <<"donorName", "custom">>}

\* Items are added, edited and deleted; every render counts the incomplete
\* fields.
FieldsNext ==
  \/ handleAddItem
  \/ \E id \in ItemIds(items), e \in FieldEdits : handleUpdateItem(id, e[1], e[2])
  \/ \E id \in ItemIds(items) : handleDeleteItem(id)

FieldsSpec == FieldsInit /\ [][FieldsNext]_vars

\* A session that uses the camera only, with one more call than Spec allows.
CameraNext ==
  \/ mountEffect
  \/ handleAddItem
  \/ \E index \in 0..(MaxItems - 1) : handleOpenModal("camera", index)
  \/ takePhoto
  \/ retakePhoto
  \/ closeModal
  \/ processPhoto(MaxPhotoCalls)
  \/ \E call \in calls, response \in Responses(ImageResults) : settleImage(call, response)

CameraSpec == Init /\ [][CameraNext]_vars

\* Every call to the enrichment client settles: fetch resolves or rejects.
settle(n) ==
  \E call \in calls :
    /\ call.n = n
    /\ \/ \E response \in Responses(VoiceResults) : settleVoice(call, response)
       \/ \E response \in Responses(ImageResults) : settleImage(call, response)

\* A session of smart inputs only: no manual edit, no barcode, no submission.
\* The steps left out change neither processingItems nor calls.
EnrichNext ==
  \/ mountEffect
  \/ handleAddItem
  \/ \E id \in ItemIds(items) : handleDeleteItem(id)
  \/ \E modal \in {"camera", "voice"}, index \in 0..(MaxItems - 1) :
       handleOpenModal(modal, index)
  \/ closeVoiceModal
  \/ takePhoto
  \/ closeModal
  \/ \E text \in Transcripts : handleProcess(text, MaxCalls)
  \/ processPhoto(MaxCalls)
  \/ \E call \in calls, response \in Responses(VoiceResults) : settleVoice(call, response)
  \/ \E call \in calls, response \in Responses(ImageResults) : settleImage(call, response)

FairSpec ==
  Init /\ [][EnrichNext]_vars /\ \A n \in 1..MaxCalls : WF_vars(settle(n))

\* A session that scans barcodes: the products found are confirmed, rescanned
\* or dismissed, and weights are typed by hand.
ScanEdits == {<<"weightLbs", handleNumberChange("weightLbs", 2500)>>}

ScanNext ==
  \/ mountEffect
  \/ handleAddItem
  \/ \E id \in ItemIds(items), e \in ScanEdits : handleUpdateItem(id, e[1], e[2])
  \/ \E index \in 0..(MaxItems - 1) : handleOpenModal("barcode", index)
  \/ \E productInfo \in ProductInfos : lookupBarcode(productInfo)
  \/ handleRescan
  \/ handleConfirmProduct
  \/ closeBarcodeModal

ScanSpec == Init /\ [][ScanNext]_vars

\* The edits a user makes while enrichments are in flight: fields that no
\* result, or only a voice result, overwrites.
ConcurrentEdits ==
  {<<"expirationDate", "2027-01-31">>, <<"quantity", 3>>,
   <<"donorName", "Perkins">>}

\* A session of smart inputs and manual edits, without barcode, deletion and
\* submission.
EditNext ==
  \/ mountEffect
  \/ handleAddItem
  \/ \E id \in ItemIds(items), e \in ConcurrentEdits : handleUpdateItem(id, e[1], e[2])
  \/ \E modal \in {"camera", "voice"}, index \in 0..(MaxItems - 1) :
       handleOpenModal(modal, index)
  \/ closeVoiceModal
  \/ takePhoto
  \/ closeModal
  \/ \E text \in Transcripts : handleProcess(text, MaxCalls)
  \/ processPhoto(MaxCalls)
  \/ \E call \in calls, response \in Responses(VoiceResults) : settleVoice(call, response)
  \/ \E call \in calls, response \in Responses(ImageResults) : settleImage(call, response)

EditSpec == Init /\ [][EditNext]_vars

\* Results and products whose category is in CATEGORIES, is not, or is left
\* out.
CategoryVoiceResults ==
  VoiceResults \cup
  {[itemName |-> "Stew", category |-> "Soups", estimatedWeightLbs |-> 750]}

CategoryImageResults ==
  ImageResults \cup
  {[description |-> "Tuna", category |-> "", weightLbs |-> 300]}

CategoryProducts ==
  {[name |-> "Milk", barcode |-> "0123456789029"],
   [name |-> "Milk", brand |-> "Acme", category |-> "Groceries",
    weight |-> <<"4", " ", "l", "b">>, barcode |-> "0123456789029"],
   [name |-> "Corn", brand |-> "", category |-> "Canned Goods",
    weight |-> <<"1", "6", " ", "o", "z">>, barcode |-> "0123456789012"]}

\* A session that uses the three smart inputs, without manual edits,
\* deletion and submission.
SmartNext ==
  \/ mountEffect
  \/ handleAddItem
  \/ \E modal \in {"camera", "voice", "barcode"}, index \in 0..(MaxItems - 1) :
       handleOpenModal(modal, index)
  \/ closeVoiceModal
  \/ closeBarcodeModal
  \/ handlePhotoInstead
  \/ takePhoto
  \/ closeModal
  \/ \E text \in Transcripts : handleProcess(text, MaxCalls)
  \/ processPhoto(MaxCalls)
  \/ \E call \in calls, response \in Responses(CategoryVoiceResults) :
       settleVoice(call, response)
  \/ \E call \in calls, response \in Responses(CategoryImageResults) :
       settleImage(call, response)
  \/ \E productInfo \in CategoryProducts : lookupBarcode(productInfo)
  \/ handleRescan
  \/ handleConfirmProduct

SmartSpec == Init /\ [][SmartNext]_vars

\* Voice results with and without a quantity and a donor name: a quantity of
\* 0, 1 and more, a name that is empty, blank, a known donor, the custom
\* sentinel and another text.
QuantityDonorResults ==
  {[itemName |-> "Rice", category |-> "Pantry Staples", estimatedWeightLbs |-> 2000],
   [itemName |-> "Broth", category |-> "Canned Goods", estimatedWeightLbs |-> 500,
    quantity |-> 0, donorName |-> ""],
   [itemName |-> "Bagels", category |-> "Bakery", estimatedWeightLbs |-> 250,
    quantity |-> 1, donorName |-> "   "],
   [itemName |-> "Soup", category |-> "Canned Goods", estimatedWeightLbs |-> 1000,
    quantity |-> 2, donorName |-> "Safeway"],
   [itemName |-> "Pasta", category |-> "Pantry Staples", estimatedWeightLbs |-> 1500,
    quantity |-> 5, donorName |-> "Church"],
   [itemName |-> "Juice", category |-> "Beverages", estimatedWeightLbs |-> 4000,
    donorName |-> "custom"]}

\* A session that fills in the items by voice and edits quantities.
VoiceNext ==
  \/ mountEffect
  \/ handleAddItem
  \/ \E id \in ItemIds(items), e \in UserEdits : handleUpdateItem(id, e[1], e[2])
  \/ \E index \in 0..(MaxItems - 1) : handleOpenModal("voice", index)
  \/ closeVoiceModal
  \/ \E text \in Transcripts : handleProcess(text, MaxCalls)
  \/ \E call \in calls, response \in Responses(QuantityDonorResults) :
       settleVoice(call, response)

VoiceSpec == Init /\ [][VoiceNext]_vars

\* A session in which items are filled in by voice and by barcode and the
\* form is submitted: the reset that follows a submission can arrive while a
\* modal is open.
ResetNext ==
  \/ mountEffect
  \/ handleAddItem
  \/ \E modal \in {"voice", "barcode"}, index \in 0..(MaxItems - 1) :
       handleOpenModal(modal, index)
  \/ closeVoiceModal
  \/ closeBarcodeModal
  \/ \E text \in Transcripts : handleProcess(text, MaxCalls)
  \/ \E call \in calls, response \in Responses(VoiceResults) : settleVoice(call, response)
  \/ \E productInfo \in CategoryProducts : lookupBarcode(productInfo)
  \/ handleConfirmProduct
  \/ handleSubmit(MaxSubmits)
  \/ submitSuccess
  \/ resetTimeout

ResetSpec == Init /\ [][ResetNext]_vars

\* A session that uses the camera only, with one more call than Spec allows
\* and two results that differ in every field.
OrderNext ==
  \/ mountEffect
  \/ handleAddItem
  \/ \E index \in 0..(MaxItems - 1) : handleOpenModal("camera", index)
  \/ takePhoto
  \/ retakePhoto
  \/ closeModal
  \/ processPhoto(MaxPhotoCalls)
  \/ \E call \in calls, response \in Responses(CategoryImageResults) :
       settleImage(call, response)

OrderSpec == Init /\ [][OrderNext]_vars

\* A session of barcode scans whose lookups find a product, find none or
\* fail, with the ways out of the modal.
LookupNext ==
  \/ mountEffect
  \/ handleAddItem
  \/ \E id \in ItemIds(items), e \in ScanEdits : handleUpdateItem(id, e[1], e[2])
  \/ \E index \in 0..(MaxItems - 1) : handleOpenModal("barcode", index)
  \/ \E productInfo \in CategoryProducts : lookupBarcode(productInfo)
  \/ \E message \in LookupErrors : lookupBarcodeFailed(message)
  \/ handleRescan
  \/ handleConfirmProduct
  \/ closeBarcodeModal
  \/ handlePhotoInstead
  \/ closeModal

LookupSpec == Init /\ [][LookupNext]_vars

\* ================================================================== claims
OkResponse(r) == [kind |-> "ok", json |-> r]
FailureResponses == {[kind |-> "reject"], [kind |-> "status"]}

\* The ids an item can get within the bounds.
AllIds == 1..(MaxIds + MaxSubmits + MaxResubmits)

\* Only the item at position i changed, it kept its id and took description d.
OnlyItemMerged(i, d) ==
  /\ Len(items') = Len(items)
  /\ \A j \in 1..Len(items) : j # i => items'[j] = items[j]
  /\ items'[i].id = items[i].id
  /\ items'[i].description = d

\* Item B, the target of the call, is at position i, which is before the
\* position it had when the call was started: an item before B was deleted.
TargetMovedUp(call, i) ==
  /\ items[i].id = call.itemId
  /\ i - 1 < call.closure.activeItemIndex

\* C1: when a voice or image enrichment was started on item B and an item
\* before B was deleted while the call was in flight (B still present), the
\* step that delivers the result changes B, found by its id, and no other
\* item; it does not change the item now at B's former index.
C1_ResultAppliedToTargetById ==
  [][\A call \in calls : \A i \in 1..Len(items) :
       TargetMovedUp(call, i) =>
         /\ \A r \in VoiceResults :
              settleVoice(call, OkResponse(r)) => OnlyItemMerged(i, r.itemName)
         /\ \A r \in ImageResults :
              settleImage(call, OkResponse(r)) => OnlyItemMerged(i, r.description)
    ]_vars

\* A call is in flight on B, B has moved up since the call began, and another
\* item now is at B's former index.
C1_Witness ==
  \E call \in calls : \E i \in 1..Len(items) :
    /\ TargetMovedUp(call, i)
    /\ At(items, call.closure.activeItemIndex) # <<>>
    /\ items[call.closure.activeItemIndex + 1].id # call.itemId

\* C2: the step in which an enrichment call settles whose target item is no
\* longer in the collection leaves items (and the summary) as they were.
C2_StaleMergeIsNoOp ==
  [][\A call \in calls :
       (call.itemId \notin ItemIds(items) /\ call \notin calls') =>
         (items' = items /\ summary' = summary)
    ]_vars

\* An enrichment settled after handleDeleteItem removed its target: the flag
\* entry the delete removed is back, set to false, and no reset took place.
C2_Witness ==
  /\ submitCount = 0
  /\ Len(items) >= 1
  /\ \E id \in DOMAIN processingItems :
       /\ id \notin ItemIds(items)
       /\ ~processingItems[id]
       /\ \A call \in calls : call.itemId # id

\* C3: the step in which an enrichment call fails (fetch rejects or answers
\* with a non-2xx status) changes no item, and after it the target item's
\* processing flag is not set.
C3_FailedEnrichmentKeepsItems ==
  [][\A call \in calls : \A response \in FailureResponses :
       (settleVoice(call, response) \/ settleImage(call, response)) =>
         /\ items' = items
         /\ ~isItemProcessing(processingItems', call.itemId)
    ]_vars

\* An enrichment on an edited item has failed: the toast shows, the edit is
\* still there and the item's flag is false.
C3_Witness ==
  /\ toastMessage = "error"
  /\ \E i \in 1..Len(items) :
       /\ items[i].quantity = 3
       /\ items[i].description = ""
       /\ items[i].id \in DOMAIN processingItems
       /\ ~processingItems[items[i].id]

\* C4: under FairSpec (every call to the enrichment client settles), a
\* processing flag that is set is eventually not set.
C4_ProcessingEventuallyCleared ==
  \A id \in AllIds :
    isItemProcessing(processingItems, id) ~> ~isItemProcessing(processingItems, id)

\* A processing flag is set while its call is in flight.
C4_Witness ==
  \E call \in calls : isItemProcessing(processingItems, call.itemId)

\* C5: for every item in the collection, its processing flag is set exactly
\* when an enrichment call targeting it is in flight.
C5_ProcessingIffInFlight ==
  \A i \in 1..Len(items) :
    isItemProcessing(processingItems, items[i].id)
      <=> (\E call \in calls : call.itemId = items[i].id)

\* C6: once the initial item has been created, items is never empty.
C6_ItemsNeverEmpty == mounted => Len(items) >= 1

\* C7: the reset step that follows a successful submission leaves exactly one
\* fresh default item with a new id, and no entry in processingItems.
C7_ResetClearsSession ==
  [][resetTimeout =>
       /\ Len(items') = 1
       /\ items'[1] = getNewItem(items'[1].id)
       /\ items'[1].id \notin ItemIds(items)
       /\ DOMAIN processingItems' = {}
    ]_vars

\* C8: formId never changes, and every payload posted so far carries it.
C8_FormIdStable ==
  [][/\ formId' = formId
     /\ \A f \in sentFormIds' : f = formId'
    ]_vars

\* A second submission, made after a successful submission and its reset.
C8_Witness ==
  /\ submitCount = 2
  /\ request # <<>>
  /\ now >= 1
  /\ sentFormIds = {formId}

\* C9: the step in which a submission fails changes none of items,
\* processingItems, activeItemIndex and formId, and after it the submit
\* button is enabled.
C9_FailedSubmitKeepsStateAndReenables ==
  [][submitFailure =>
       /\ items' = items
       /\ processingItems' = processingItems
       /\ activeItemIndex' = activeItemIndex
       /\ formId' = formId
       /\ submitEnabled'
    ]_vars

\* C10: the summary of a posted payload is the summary of the items of that
\* payload.
C10_PayloadSummaryMatchesItems ==
  request # <<>> => request[1].summary = computeSummary(request[1].items)

\* A payload of two items, one of them filled in by an enrichment, one edited.
C10_Witness ==
  /\ request # <<>>
  /\ Len(request[1].items) = 2
  /\ \E i \in 1..2 : request[1].items[i].description # ""
  /\ \E i \in 1..2 : request[1].items[i].quantity = 3
  /\ request[1].summary.totalWeightLbs > 0

\* C11: the step that posts a submission leaves items as they are, and the
\* payload holds the items in their order, each with donorName replaced by
\* customDonorText when donorName is "custom" and otherwise as it is.
C11_PayloadDonorResolved ==
  [][handleSubmit(MaxSubmits) =>
       /\ items' = items
       /\ Len(request'[1].items) = Len(items)
       /\ \A i \in 1..Len(items) :
            request'[1].items[i] =
              IF items[i].donorName = "custom"
              THEN [items[i] EXCEPT !.donorName = items[i].customDonorText]
              ELSE items[i]
    ]_vars

\* A payload of two items in flight, one with a custom donor resolved to its
\* text and one with a listed donor.
C11_Witness ==
  /\ request # <<>>
  /\ Len(request[1].items) = 2
  /\ Len(items) = 2
  /\ items[1].donorName = "custom"
  /\ request[1].items[1].donorName = "Church"
  /\ request[1].items[1].customDonorText = "Church"
  /\ request[1].items[2].donorName = "Safeway"

\* C12: a click on the submit button starts a submission only when every item
\* passes the completeness check (the indicator shows 'All fields are
\* filled').
C12_SubmitOnlyWhenComplete ==
  [][handleSubmit(MaxSubmits) => allFieldsComplete(items)]_vars

\* The item at position i of its has field set to value and is otherwise the
\* item at position i of old; all other positions are as in old.
OnlyFieldReplaced(old, its, i, field, value) ==
  /\ Len(its) = Len(old)
  /\ its[i][field] = value
  /\ \A f \in (DOMAIN old[i]) \ {field} : its[i][f] = old[i][f]
  /\ \A j \in 1..Len(old) : j # i => its[j] = old[j]

\* C13: a handleUpdateItem step replaces exactly the named field of the item
\* with the id and changes neither processingItems nor activeItemIndex; and in
\* every state, for every edit, the update of an item replaces only that
\* field, the update of an id that no item has returns the items as they
\* are, and so does the update of a field with its current value.
C13_UpdateReplacesOneField ==
  [][/\ \A i \in 1..Len(items), e \in UserEdits :
          handleUpdateItem(items[i].id, e[1], e[2]) =>
            /\ OnlyFieldReplaced(items, items', i, e[1], e[2])
            /\ processingItems' = processingItems
            /\ activeItemIndex' = activeItemIndex
     /\ \A i \in 1..Len(items), e \in FormEdits \cup UserEdits :
          OnlyFieldReplaced(items, updateItem(items, items[i].id, e[1], e[2]),
                            i, e[1], e[2])
     /\ \A id \in AllIds \ ItemIds(items), e \in FormEdits \cup UserEdits :
          updateItem(items, id, e[1], e[2]) = items
     /\ \A i \in 1..Len(items) : \A f \in DOMAIN items[i] :
          updateItem(items, items[i].id, f, items[i][f]) = items
    ]_vars

\* An item that an enrichment filled in was edited by hand while a call is in
\* flight on the other item and an item index is active.
C13_Witness ==
  /\ Len(items) = 2
  /\ activeItemIndex # NoIndex
  /\ \E i \in 1..2 : items[i].quantity = 3 /\ items[i].description = "Beans"
  /\ \E i \in 1..2 : isItemProcessing(processingItems, items[i].id)

\* its is old without its item at position i, the others in their order.
ItemRemovedAt(old, its, i) ==
  /\ Len(its) = Len(old) - 1
  /\ \A j \in 1..(i - 1) : its[j] = old[j]
  /\ \A j \in (i + 1)..Len(old) : its[j - 1] = old[j]

\* C14: a handleDeleteItem step removes the item with the id, keeps the other
\* items as they are and in their order, removes the id's entry from
\* processingItems and keeps the other entries; deleting an id that no item
\* has returns the items as they are.
C14_DeleteRemovesItemAndFlag ==
  [][/\ \A i \in 1..Len(items) :
          handleDeleteItem(items[i].id) =>
            /\ ItemRemovedAt(items, items', i)
            /\ DOMAIN processingItems' = (DOMAIN processingItems) \ {items[i].id}
            /\ \A x \in DOMAIN processingItems' :
                 processingItems'[x] = processingItems[x]
     /\ \A id \in AllIds \ ItemIds(items) : deleteItem(items, id) = items
    ]_vars

\* The first of two items was deleted while an enrichment on it is in flight:
\* its flag entry is gone, and the other item has an entry of its own.
C14_Witness ==
  /\ submitCount = 0
  /\ Len(items) = 1
  /\ items[1].id \in DOMAIN processingItems
  /\ \E call \in calls :
       /\ call.itemId < items[1].id
       /\ call.itemId \notin ItemIds(items)
       /\ call.itemId \notin DOMAIN processingItems

\* The ids of its are pairwise distinct.
DistinctIds(its) ==
  \A i, j \in 1..Len(its) : its[i].id = its[j].id => i = j

\* The ids that items and items' share are in the same order in both.
SameIdOrder ==
  \A i, j \in 1..Len(items) : \A k, l \in 1..Len(items') :
    (i < j /\ items'[k].id = items[i].id /\ items'[l].id = items[j].id) => k < l

\* C15: in every step the items before and after it have pairwise distinct
\* ids, the items that stay keep their ids in the same order, and the id of
\* an item that the step created was never handed out before (the ids handed
\* out so far are those below nextId).
C15_IdsDistinctAndNeverReused ==
  [][/\ DistinctIds(items) /\ DistinctIds(items')
     /\ SameIdOrder
     /\ \A id \in ItemIds(items) : id < nextId
     /\ \A id \in ItemIds(items') \ ItemIds(items) : id >= nextId /\ id < nextId'
    ]_vars

\* After a submission and its reset an item was added: two items, none with
\* the id of the submitted item.
C15_Witness ==
  /\ submitCount = 1
  /\ request = <<>>
  /\ resetTimers = 0
  /\ statusMessage = "none"
  /\ Len(items) = 2
  /\ 1 \notin ItemIds(items)

\* C16: a handleAddItem step makes items one longer, keeps every item at its
\* position and puts a default item (empty category, donorName,
\* customDonorText and description, weightLbs 0, quantity 1) last; and the
\* step can be taken in every state in which the form can be clicked (and the
\* bounds of the model leave room for an item).
C16_AddAppendsDefaultItem ==
  [][/\ handleAddItem =>
          /\ Len(items') = Len(items) + 1
          /\ \A i \in 1..Len(items) : items'[i] = items[i]
          /\ LET it == items'[Len(items')] IN
               /\ it.category = "" /\ it.donorName = ""
               /\ it.customDonorText = "" /\ it.description = ""
               /\ it.weightLbs = 0 /\ it.quantity = 1
               /\ it.expirationDate = DefaultExpiration
     /\ (FormUsable /\ Len(items) < MaxItems /\ nextId <= MaxIds)
          => ENABLED handleAddItem
    ]_vars

\* An item was added after the item an enrichment filled in, while a
\* submission is in flight.
C16_Witness ==
  /\ Len(items) = 2
  /\ items[1].description = "Soup"
  /\ items[2] = getNewItem(items[2].id)
  /\ isLoading
  /\ Len(request[1].items) = 1

\* What a quantity or weight counts for: its number, 0 when it is no number.
CountedAs(v, unit) ==
  IF typeof(v) = "number" THEN v
  ELSE IF typeof(v) = "string" /\ v \in DOMAIN NumericStrings
       THEN NumericStrings[v] * unit
       ELSE 0

RECURSIVE TotalUpTo(_, _, _)
TotalUpTo(its, n, weighted) ==
  IF n = 0 THEN 0
  ELSE TotalUpTo(its, n - 1, weighted)
       + (IF weighted
          THEN CountedAs(its[n].weightLbs, 1000) * CountedAs(its[n].quantity, 1)
          ELSE CountedAs(its[n].quantity, 1))

\* The example of the specification: 2 lbs x 3 and 0.5 lbs x 10.
ExampleItems == <<SummaryItem(1, 3, 2), SummaryItem(2, 2, 3)>>

\* C17: the summary is the sum of the quantities and the sum of weight x
\* quantity over the items, a text or missing value counted as 0; it is
\* {0, 0} for no items and {13, 11} for the example.
C17_SummaryIsCoercedSum ==
  /\ summary.totalItems = TotalUpTo(items, Len(items), FALSE)
  /\ summary.totalWeightLbs = TotalUpTo(items, Len(items), TRUE)
  /\ computeSummary(<<>>) = [totalItems |-> 0, totalWeightLbs |-> 0]
  /\ computeSummary(ExampleItems) = [totalItems |-> 13, totalWeightLbs |-> 11000]

\* An item with a text for its quantity and one with a missing weight were
\* summed up with a numeric item left after a delete and an add.
C17_Witness ==
  /\ Len(items) = 2
  /\ nextId = 4
  /\ typeof(items[1].quantity) = "number"
  /\ items[1].quantity = 10
  /\ typeof(items[1].weightLbs) = "string"
  /\ summary = [totalItems |-> 11, totalWeightLbs |-> 0]

\* A text that is blank after trimming.
Blank(text) == text \in {"", " ", "   "}

\* The empty fields of an item: description, category, donorName, weightLbs
\* and expirationDate, and customDonorText when donorName is "custom".
EmptyFields(it) ==
  {f \in {"description", "category", "donorName", "expirationDate"} : Blank(it[f])}
  \cup (IF it.weightLbs <= 1 THEN {"weightLbs"} ELSE {})
  \cup (IF it.donorName = "custom" /\ Blank(it.customDonorText)
        THEN {"customDonorText"} ELSE {})

RECURSIVE EmptyFieldsUpTo(_, _)
EmptyFieldsUpTo(its, n) ==
  IF n = 0 THEN 0
  ELSE EmptyFieldsUpTo(its, n - 1) + Cardinality(EmptyFields(its[n]))

\* An item with only description and category empty.
TwoEmptyFields ==
  <<[getNewItem(1) EXCEPT !.donorName = "Safeway", !.weightLbs = 500]>>

\* C18: the count of incomplete fields is the number of empty fields summed
\* over the items (a text empty when blank, the weight when at most 0.001,
\* customDonorText counted only with donorName "custom", quantity never);
\* it is 2 for one item with only description and category empty.
C18_IncompleteFieldsCounted ==
  /\ getIncompleteFields(items) = EmptyFieldsUpTo(items, Len(items))
  /\ getIncompleteFields(TwoEmptyFields) = 2

\* Two items, the first with a blank description, a weight of 0.001, the
\* custom donor without its text and quantity 0: eight fields to fill in.
C18_Witness ==
  /\ Len(items) = 2
  /\ items[1].description = "   "
  /\ items[1].weightLbs = 1
  /\ items[1].quantity = 0
  /\ items[1].donorName = "custom"
  /\ items[1].customDonorText = ""
  /\ items[2].donorName = "custom"
  /\ getIncompleteFields(items) = 8

\* The results the client can deliver for a call, and the items after the
\* call's onSuccess ran on its with result r.
ResultsOf(call) == IF call.kind = "voice" THEN VoiceResults ELSE ImageResults

MergedInto(its, call, r) ==
  applySuccess(call.kind, successClosure(call, Render), its, r)

\* C19: with two calls in flight on two different items, each call's result
\* changes no item but its own target, and the items after both results are
\* the same in either order of arrival.
C19_EnrichmentsDoNotInterfere ==
  [][\A c1, c2 \in calls :
       (c1.itemId # c2.itemId) =>
         \A r1 \in ResultsOf(c1), r2 \in ResultsOf(c2) :
           /\ \A i \in 1..Len(items) :
                items[i].id # c1.itemId => MergedInto(items, c1, r1)[i] = items[i]
           /\ MergedInto(MergedInto(items, c1, r1), c2, r2)
                = MergedInto(MergedInto(items, c2, r2), c1, r1)
           /\ (settleVoice(c1, OkResponse(r1)) \/ settleImage(c1, OkResponse(r1)))
                => items' = MergedInto(items, c1, r1)
    ]_vars

\* Two calls are in flight on the two items, which are not at the positions
\* they had when their calls started: an item before them was deleted.
C19_Witness ==
  /\ Len(items) = 2
  /\ \A i \in 1..2 :
       \E call \in calls :
         /\ call.itemId = items[i].id
         /\ isItemProcessing(processingItems, items[i].id)
  /\ \E call \in calls : call.closure.itemIds # <<items[1].id, items[2].id>>

\* C20: the step that starts a voice or an image enrichment dismisses the
\* input modal: after it no modal is open.
C20_ModalDismissedOnStart ==
  [][((\E text \in Transcripts : handleProcess(text, MaxCalls))
        \/ processPhoto(MaxCalls)) => NoModalOpen'
    ]_vars

\* The fields of an item, and those a successful result r of a voice or an
\* image enrichment overwrites.
AllFields ==
  {"id", "description", "category", "donorName", "customDonorText",
   "weightLbs", "quantity", "expirationDate"}

SuppliesQuantity(r) == "quantity" \in DOMAIN r /\ r.quantity > 1
SuppliesDonor(r) == "donorName" \in DOMAIN r /\ trim(r.donorName) # ""
SuppliesKnownDonor(r) == SuppliesDonor(r) /\ r.donorName \in DONORS \ {"custom"}

Overwritten(kind, r) ==
  {"description", "weightLbs", "category"} \cup
  (IF kind = "voice" /\ SuppliesQuantity(r) THEN {"quantity"} ELSE {}) \cup
  (IF kind = "voice" /\ SuppliesDonor(r) THEN {"donorName"} ELSE {}) \cup
  (IF kind = "voice" /\ SuppliesDonor(r) /\ ~SuppliesKnownDonor(r)
   THEN {"customDonorText"} ELSE {})

\* C21: the step that merges the result of an enrichment keeps, in the items
\* as they are when the result arrives (so with every edit made while the
\* call was in flight), every field of the target that the merge policy of
\* the result does not overwrite, and every field of every other item.
C21_MergeKeepsConcurrentEdits ==
  [][\A call \in calls : \A r \in ResultsOf(call) :
       (settleVoice(call, OkResponse(r)) \/ settleImage(call, OkResponse(r))) =>
         /\ Len(items') = Len(items)
         /\ \A i \in 1..Len(items) : \A field \in AllFields :
              (items[i].id # call.itemId \/ field \notin Overwritten(call.kind, r))
                => items'[i][field] = items[i][field]
    ]_vars

\* An image enrichment is in flight on the only item there was when it was
\* started; an item added since has an edited quantity and date, and the
\* target has an edited date, quantity and donor.
C21_Witness ==
  \E call \in calls :
    /\ call.kind = "image"
    /\ call.closure.itemIds = <<call.itemId>>
    /\ Len(items) = 2
    /\ items[1].id = call.itemId
    /\ items[1].expirationDate = "2027-01-31"
    /\ items[1].quantity = 3
    /\ items[1].donorName = "Perkins"
    /\ items[2].expirationDate = "2027-01-31"
    /\ items[2].quantity = 3

\* A modal is open and waits for the user: to speak, to scan, to take or to
\* confirm a photo.
AwaitingInput ==
  isVoiceOpen \/ isBarcodeOpen \/ (isCameraOpen /\ step # "processing")

\* An item can be added (within the bounds), and every item that is not being
\* enriched can be deleted and edited.
EditingEnabled ==
  /\ (Len(items) < MaxItems /\ nextId <= MaxIds) => ENABLED handleAddItem
  /\ \A id \in ItemIds(items) :
       ~isItemProcessing(processingItems, id) =>
         /\ ENABLED handleDeleteItem(id)
         /\ \A e \in UserEdits : ENABLED handleUpdateItem(id, e[1], e[2])

\* C22: in every state of the mounted recorder in which no modal waits for
\* the user's input - whatever enrichments or submission are in flight or
\* have failed - an item can be added and every item that is not being
\* enriched can be deleted and edited.
C22_EditingNeverBlocked ==
  (mounted /\ ~AwaitingInput) => EditingEnabled

\* What the quantity texts are in pounds, in hundredths: the first number
\* that is followed by a unit, times the pounds of that unit (0.00220462 per
\* g or ml, 2.20462 per kg or l, 0.0625 per oz, 0.0652 per fl oz), to the
\* nearest hundredth; 0 when there is no such pair or the unit is no unit of
\* weight or volume.
PoundsOf(text) ==
  CASE text = <<>> -> 0
    [] text = <<"g", "a", "r", "b", "a", "g", "e">> -> 0
    [] text = <<"1", "6">> -> 0
    [] text = <<"1", "6", " ", "o", "z">> -> 100
    [] text = <<"5", "0", "0", " ", "g">> -> 110
    [] text = <<"5", " ", "x", "y", "z">> -> 0
    [] text = <<"0", " ", "g">> -> 0
    [] text = <<"1", " ", "g">> -> 0
    [] text = <<"1", ".", "5", " ", "k", "g">> -> 331
    [] text = <<" ", "1", "2", "O", "Z", " ">> -> 75
    [] text = <<"-", "5", " ", "l", "b">> -> 500
    [] text = <<"2", " ", "l", "b", " ", "8", " ", "o", "z">> -> 200
    [] text = <<"2", " ", "x", " ", "1", "0", "0", " ", "g">> -> 0
    [] text = <<"n", "e", "t", " ", "3", " ", "l", "b", "s">> -> 300
    [] text = <<"1", "2", " ", "f", "l", " ", "o", "z">> -> 78
    [] text = <<"1", ".", "5", ".", "2", " ", "k", "g">> -> 1146
    [] text = <<"4", " ", "l", "b">> -> 400

\* The quantity text of the product the barcode modal shows.
DetectedWeight == detectedProduct[1].weight

\* C23: for the quantity text of every product found, parseProductWeight
\* gives a value that is not negative and has two decimal places: 0 for an
\* empty text, a text without a number followed by a unit and a first unit
\* that is not recognized, else the first number times the pounds of its
\* unit, rounded to the hundredth.
C23_WeightParsedToPounds ==
  (detectedProduct # <<>> /\ "weight" \in DOMAIN detectedProduct[1]) =>
    /\ parseProductWeight(DetectedWeight) >= 0
    /\ parseProductWeight(DetectedWeight) % 10 = 0
    /\ parseProductWeight(DetectedWeight) = 10 * PoundsOf(DetectedWeight)

\* A product of 500 g was parsed to 1.10 lb and merged, and now a product of
\* 1.5 kg is shown.
C23_Witness ==
  /\ detectedProduct # <<>>
  /\ "weight" \in DOMAIN detectedProduct[1]
  /\ DetectedWeight = <<"1", ".", "5", " ", "k", "g">>
  /\ \E i \in 1..Len(items) : items[i].weightLbs = 1100

\* The category an item has after a result or product r was merged into it.
CategoryAfter(r) ==
  IF "category" \in DOMAIN r /\ r.category \in CATEGORIES
  THEN r.category ELSE "Other"

\* The item at position i took the category of r, or the fallback.
CategoryMerged(i, r) ==
  /\ Len(items') = Len(items)
  /\ items'[i].category = CategoryAfter(r)
  /\ items'[i].category \in CATEGORIES

\* C24: the step that merges a voice result, an image result or a scanned
\* product into an item leaves that item with a category of CATEGORIES: the
\* category of the result when it is in CATEGORIES, 'Other' when it is not or
\* when the product has no category.
C24_CategoryKnownAfterMerge ==
  [][/\ \A call \in calls : \A i \in 1..Len(items) :
          items[i].id = call.itemId =>
            /\ \A r \in CategoryVoiceResults :
                 settleVoice(call, OkResponse(r)) => CategoryMerged(i, r)
            /\ \A r \in CategoryImageResults :
                 settleImage(call, OkResponse(r)) => CategoryMerged(i, r)
     /\ \A i \in 1..Len(items) :
          (handleConfirmProduct /\ i - 1 = activeItemIndex) =>
            CategoryMerged(i, detectedProduct[1])
    ]_vars

\* A product without a category was merged into one item and a voice result
\* of a category outside CATEGORIES into the other: both are 'Other'; an
\* image enrichment is in flight.
C24_Witness ==
  /\ Len(items) = 2
  /\ \E i, j \in 1..2 :
       /\ items[i].description = "Milk"
       /\ items[i].category = "Other"
       /\ items[j].description = "Stew"
       /\ items[j].category = "Other"
  /\ \E call \in calls : call.kind = "image"

\* C25: the step that merges a voice result r into an item sets its
\* description and weightLbs to those of r; it sets its quantity to that of r
\* when r has a quantity greater than 1 and leaves the quantity as it was
\* when r has no quantity or a quantity of 0 or 1.
C25_VoiceQuantityOnlyAboveOne ==
  [][\A call \in calls : \A r \in QuantityDonorResults : \A i \in 1..Len(items) :
       (items[i].id = call.itemId /\ settleVoice(call, OkResponse(r))) =>
         /\ items'[i].description = r.itemName
         /\ items'[i].weightLbs = r.estimatedWeightLbs
         /\ ("quantity" \notin DOMAIN r => items'[i].quantity = items[i].quantity)
         /\ ("quantity" \in DOMAIN r =>
               /\ r.quantity \in {0, 1} => items'[i].quantity = items[i].quantity
               /\ r.quantity > 1 => items'[i].quantity = r.quantity)
    ]_vars

\* Voice enrichments are in flight on an item of the default quantity 1 and
\* on an item whose quantity was set to 3.
C25_Witness ==
  /\ Len(items) = 2
  /\ \E c1, c2 \in calls :
       /\ c1.kind = "voice"
       /\ c2.kind = "voice"
       /\ \E i, j \in 1..2 :
            /\ items[i].id = c1.itemId
            /\ items[i].quantity = 1
            /\ items[j].id = c2.itemId
            /\ items[j].quantity = 3

\* C26: the step that merges a voice result r into an item sets donorName to
\* the donor name of r and keeps customDonorText when the name is a known
\* donor other than 'custom'; sets donorName to 'custom' and customDonorText
\* to the name when it is any other text that is not blank; keeps both when r
\* has no donor name or an empty or blank one.  So a merge that makes the
\* donor 'custom' leaves a customDonorText that is not blank.
C26_VoiceDonorOnlyWhenNamed ==
  [][\A call \in calls : \A r \in QuantityDonorResults : \A i \in 1..Len(items) :
       (items[i].id = call.itemId /\ settleVoice(call, OkResponse(r))) =>
         /\ ("donorName" \notin DOMAIN r =>
               /\ items'[i].donorName = items[i].donorName
               /\ items'[i].customDonorText = items[i].customDonorText)
         /\ ("donorName" \in DOMAIN r =>
               /\ r.donorName \in {"", " ", "   "} =>
                    /\ items'[i].donorName = items[i].donorName
                    /\ items'[i].customDonorText = items[i].customDonorText
               /\ r.donorName \in DONORS \ {"custom"} =>
                    /\ items'[i].donorName = r.donorName
                    /\ items'[i].customDonorText = items[i].customDonorText
               /\ r.donorName \notin (DONORS \ {"custom"}) \cup {"", " ", "   "} =>
                    /\ items'[i].donorName = "custom"
                    /\ items'[i].customDonorText = r.donorName
                    /\ items'[i].customDonorText \notin {"", " ", "   "})
    ]_vars

\* A voice enrichment is in flight on an item whose donor an earlier voice
\* result made 'custom' with the text 'Church'.
C26_Witness ==
  \E call \in calls : \E i \in 1..Len(items) :
    /\ call.kind = "voice"
    /\ items[i].id = call.itemId
    /\ items[i].donorName = "custom"
    /\ items[i].customDonorText = "Church"
    /\ items[i].description = "Pasta"

\* C27: the step that merges an image result r leaves every item but the
\* target as it was, and the target as it was but for description, weightLbs
\* and category: donorName, customDonorText, quantity, expirationDate and id
\* are the same.
C27_ImageMergeFrame ==
  [][\A call \in calls : \A r \in ImageResults :
       settleImage(call, OkResponse(r)) =>
         /\ Len(items') = Len(items)
         /\ \A i \in 1..Len(items) :
              items'[i] =
                IF items[i].id = call.itemId
                THEN [items[i] EXCEPT !.description = r.description,
                                      !.weightLbs = r.weightLbs,
                                      !.category = CategoryAfter(r)]
                ELSE items[i]
    ]_vars

\* An image enrichment is in flight on an item whose donor, quantity and date
\* were edited; the other item was filled in by voice.
C27_Witness ==
  /\ Len(items) = 2
  /\ \E call \in calls : \E i, j \in 1..2 :
       /\ call.kind = "image"
       /\ items[i].id = call.itemId
       /\ items[i].donorName = "Perkins"
       /\ items[i].quantity = 3
       /\ items[i].expirationDate = "2027-01-31"
       /\ items[j].description = "Soup"
       /\ items[j].donorName = "Safeway"

\* The description a scanned product gives: '<brand> - <name>', or the name
\* alone when it has no brand.
DescriptionOf(p) ==
  IF "brand" \in DOMAIN p /\ p.brand # "" THEN p.brand \o " - " \o p.name
  ELSE p.name

\* The pounds, in hundredths, of the quantity text of product p; 0 when it
\* has none.
ProductPounds(p) == IF "weight" \in DOMAIN p THEN PoundsOf(p.weight) ELSE 0

\* C28: the step that merges a scanned product into an item sets the item's
\* description and category from the product; it sets weightLbs to the pounds
\* of the product's quantity text when these are more than zero, and leaves
\* weightLbs as it was when the product has no text or its text gives 0
\* (nothing to parse, a unit that is not recognized, a value of zero).
C28_BarcodeWeightOnlyWhenPositive ==
  [][\A i \in 1..Len(items) :
       (handleConfirmProduct /\ i - 1 = activeItemIndex) =>
         /\ items'[i].description = DescriptionOf(detectedProduct[1])
         /\ items'[i].category = CategoryAfter(detectedProduct[1])
         /\ items'[i].weightLbs =
              IF ProductPounds(detectedProduct[1]) > 0
              THEN 10 * ProductPounds(detectedProduct[1])
              ELSE items[i].weightLbs
    ]_vars

\* The barcode modal shows a product of '5 xyz' for an item that weighs
\* 1.10 lb from an earlier scan, beside an item with a typed weight.
C28_Witness ==
  /\ detectedProduct # <<>>
  /\ "weight" \in DOMAIN detectedProduct[1]
  /\ DetectedWeight = <<"5", " ", "x", "y", "z">>
  /\ Len(items) = 2
  /\ activeItemIndex = 1
  /\ items[2].weightLbs = 1100
  /\ items[2].description = "Corn"
  /\ items[1].weightLbs = 2500

\* The render closures of the items as they are in which activeItemIndex is
\* null or is the index after the last item.
ClosuresWithoutItem ==
  {[itemIds |-> Render.itemIds, activeItemIndex |-> index] :
     index \in {NoIndex, Len(items)}}

\* C29: a success handler that runs while activeItemIndex is null or indexes
\* no item changes no item: this holds of handleVoiceSuccess,
\* handleImageSuccess and handleBarcodeSuccess on the items of every state,
\* of the step that confirms a scanned product after a reset has left fewer
\* items than the index, and of every step that settles an enrichment call
\* whose render had no current item.
C29_MergeWithoutItemIsNoOp ==
  [][/\ \A cl \in ClosuresWithoutItem :
          /\ \A r \in VoiceResults : applySuccess("voice", cl, items, r) = items
          /\ \A r \in ImageResults : applySuccess("image", cl, items, r) = items
          /\ \A p \in CategoryProducts : handleBarcodeSuccess(cl, items, p) = items
     /\ (handleConfirmProduct /\ currentItem(Render) = <<>>) =>
          (items' = items /\ summary' = summary /\ ~isBarcodeOpen')
     /\ \A call \in calls :
          (call \notin calls' /\ currentItem(successClosure(call, Render)) = <<>>) =>
            items' = items
    ]_vars

\* The barcode modal shows a product for the second item, and the reset that
\* followed a submission has left a single item.
C29_Witness ==
  /\ isBarcodeOpen
  /\ detectedProduct # <<>>
  /\ activeItemIndex = 1
  /\ Len(items) = 1
  /\ currentItem(Render) = <<>>

\* The item at position i has the description, weight and category of the
\* image result r.
HoldsResult(its, i, r) ==
  /\ its[i].description = r.description
  /\ its[i].weightLbs = r.weightLbs
  /\ its[i].category = CategoryAfter(r)

\* C30: with two image enrichments in flight on the same item, either can
\* resolve first whichever was started first; the step that delivers a result
\* writes it into the item, and after both results the fields that both
\* write (description, weightLbs, category) hold the values of the one that
\* was delivered last.
C30_LastResolvedWins ==
  [][\A c1, c2 \in calls : \A i \in 1..Len(items) :
       (c1.n < c2.n /\ c1.itemId = c2.itemId /\ items[i].id = c1.itemId) =>
         \A r1, r2 \in CategoryImageResults :
           /\ ENABLED settleImage(c1, OkResponse(r1))
           /\ ENABLED settleImage(c2, OkResponse(r2))
           /\ settleImage(c1, OkResponse(r1)) => HoldsResult(items', i, r1)
           /\ settleImage(c2, OkResponse(r2)) => HoldsResult(items', i, r2)
           /\ HoldsResult(MergedInto(MergedInto(items, c1, r1), c2, r2), i, r2)
           /\ HoldsResult(MergedInto(MergedInto(items, c2, r2), c1, r1), i, r1)
    ]_vars

\* Of two image enrichments on the same item the one started last has
\* delivered its result, and the one started first is still in flight.
C30_Witness ==
  /\ callCount = 3
  /\ \E call \in calls : \E i \in 1..Len(items) :
       /\ call.n = 2
       /\ items[i].id = call.itemId
       /\ items[i].description = "Tuna"
       /\ calls = {call}

\* C31: a barcode lookup that finds no product, or fails, changes no item
\* and leaves no product to confirm; and while the barcode modal is open the
\* items change only in a step taken with a product found and no failure
\* shown, the step that confirms the product and closes the modal.
C31_FailedLookupMergesNothing ==
  [][/\ (error = "none" /\ error' # "none") =>
          /\ items' = items
          /\ summary' = summary
          /\ detectedProduct = <<>> /\ detectedProduct' = <<>>
     /\ (isBarcodeOpen /\ items' # items) =>
          /\ detectedProduct # <<>>
          /\ error = "none"
          /\ ~isBarcodeOpen']_vars

\* A lookup has failed for the barcode scanned for an item of the form.
C31_Witness ==
  /\ isBarcodeOpen
  /\ error \in LookupErrors
  /\ currentItem(Render) # <<>>

\* The results an enrichment call of the kind can come back with.
ResultsFor(kind) == IF kind = "voice" THEN VoiceResults ELSE ImageResults

C33_FlagsOnlyForItems == DOMAIN processingItems \subseteq ItemIds(items)

\* The items the call was started on are gone: without deletion, only the
\* reset after a submission removes items.
StartedBeforeReset(call) == call.itemId \notin ItemIds(items)

\* C34: when an enrichment started before a submission's reset settles after
\* the reset, with a result or with a failure, no item changes: neither the
\* new item the reset created nor an item added since.
C34_LateResultSparesFreshItem ==
  [][\A call \in calls :
       (call \notin calls' /\ StartedBeforeReset(call)) =>
         /\ submitCount > 0
         /\ \A i \in 1..Len(items), k \in 1..Len(call.closure.itemIds) :
              items[i].id # call.closure.itemIds[k]
         /\ items' = items
         /\ summary' = summary
    ]_vars

\* The reset has replaced the submitted item by a new one while a call for
\* the submitted item is in flight, and the index the call was started with
\* now designates the new item.
C34_Witness ==
  /\ submitCount > 0
  /\ resetTimers = 0
  /\ Len(items) = 1
  /\ items[1] = getNewItem(items[1].id)
  /\ \E call \in calls :
       /\ StartedBeforeReset(call)
       /\ call.closure.activeItemIndex = 0
       /\ activeItemIndex = 0
       /\ ENABLED settleVoice(call, OkResponse(CHOOSE r \in VoiceResults : TRUE))

\* C35: between a successful submission and its delayed reset, while the
\* success message is shown over the submitted items, the form cannot be
\* submitted again.
C35_NoResubmitBeforeReset ==
  (resetTimers > 0 /\ statusMessage = "success" /\ submitCount < MaxResubmits) =>
    ~ENABLED handleSubmit(MaxResubmits)

\* C36: while a submission awaits its response the loading flag is true, the
\* submit button is disabled and no step posts another payload; without a
\* submission in flight the flag is false; and the step that settles the
\* call, with success or with an error, sets the flag to false.
C36_OneSubmissionInFlight ==
  [][/\ request # <<>> =>
          /\ isLoading
          /\ ~submitEnabled
          /\ request' = request \/ request' = <<>>
     /\ request = <<>> => ~isLoading
     /\ (request # <<>> /\ request' = <<>>) =>
          /\ ~isLoading'
          /\ statusMessage' \in {"success", "error"}
    ]_vars

\* A second submission is in flight after the first one has settled.
C36_Witness ==
  /\ request # <<>>
  /\ isLoading
  /\ submitCount = 2
  /\ statusMessage = "none"

\* The modals that are open.
OpenModals ==
  {m \in {"camera", "voice", "barcode"} :
     \/ m = "camera" /\ isCameraOpen
     \/ m = "voice" /\ isVoiceOpen
     \/ m = "barcode" /\ isBarcodeOpen}

\* C37: at most one of the three modals is open; while one is open,
\* activeItemIndex designates an item of the collection; and 'Photo Instead'
\* closes the barcode modal and opens the camera modal on the same index and
\* the same items.
C37_OneModalOnItsItem ==
  [][/\ Cardinality(OpenModals) <= 1
     /\ OpenModals # {} => currentItem(Render) # <<>>
     /\ (isBarcodeOpen /\ isCameraOpen') =>
          /\ ~isBarcodeOpen'
          /\ activeItemIndex' = activeItemIndex
          /\ items' = items
    ]_vars

====
